---- MODULE Spec2Model ----
(***************************************************************************)
(* Model of the AI forecasting service (ai-forecasting-service):           *)
(* the per-node model registries, the Prophet forecast model, the          *)
(* Isolation-Forest anomaly detector, the health scorer and the scoring    *)
(* request / background training orchestration of main.py.                 *)
(*                                                                         *)
(* Numbers: rates are fixed point in units of 1e-4 (One = 1.0), scores     *)
(* and confidences in units of 1e-8 until round(.., 4) brings them to      *)
(* 1e-4; latencies are integers in milliseconds.                           *)
(***************************************************************************)
EXTENDS Integers, Sequences, FiniteSets, TLC

\* ------------------------------------------------------------------ bounds
NumThreads == 2
NumRequests == 1
MaxAdds == 103
MaxNow == 8
MaxTrainCalls == 1
FreeAdds == 2
MaxScored == 2

\* ------------------------------------------------------- program constants
One == 10000
MIN_DATA_POINTS_FOR_PROPHET == 60
PREDICTION_HORIZON_MINUTES == 5
window_size == 100
min_samples == 20
sensitivity_factor == 20

None == "None"
Nodes == {"n1", "n2"}
Kinds == {"forecast", "anomaly"}
Threads == 1..NumThreads

Min(a, b) == IF a < b THEN a ELSE b
Max(a, b) == IF a > b THEN a ELSE b

\* scores are carried in units of 1e-8 (Fine = 1.0) until they are rounded
Fine == One * One

\* a * b of two values in units of 1e-8, by halves to stay within 32 bits
MulFine(a, b) ==
    (a \div One) * (b \div One) + ((a \div One) * (b % One) + (a % One) * (b \div One) + ((a % One) * (b % One)) \div One) \div One

\* a * r of a value in units of 1e-8 and a value in units of 1e-4
Scale(a, r) == (a \div One) * r + ((a % One) * r) \div One

\* round(x, 4) of a value in units of 1e-8, giving units of 1e-4
Round4(x) == (x + (One \div 2)) \div One

RECURSIVE Pow(_, _)
Pow(b, n) ==
    IF n <= 0 THEN Fine
    ELSE LET h == Pow(b, n \div 2)
             hh == MulFine(h, h)
         IN  IF n % 2 = 0 THEN hh ELSE MulFine(hh, b)

\* math.exp(-x / 1000) in units of 1e-8, from exp(-0.2), exp(-0.02), exp(-0.001)
exp_neg(x) ==
    MulFine(MulFine(Pow(81873075, x \div 200), Pow(98019867, (x % 200) \div 20)), Pow(99900050, x % 20))

\* s[lo] + ... + s[hi]
RECURSIVE Sum(_, _, _)
Sum(s, lo, hi) ==
    IF lo > hi THEN 0
    ELSE IF lo = hi THEN s[lo]
    ELSE Sum(s, lo, (lo + hi) \div 2) + Sum(s, (lo + hi) \div 2 + 1, hi)

\* a pandas DataFrame of (ds, y) rows, or None: y is the latency column
NoneDf == [isNone |-> TRUE, y |-> << >>]
Df(ys) == [isNone |-> FALSE, y |-> ys]

\* --------------------------------------------------------- health_scorer.py
WEIGHTS == [current_latency |-> 3500, error_rate |-> 2500,
            predicted_trend |-> 2500, anomaly_score |-> 1500]

\* the score is in units of 1e-8
_latency_to_score(latency) ==
    IF latency <= 0 THEN Fine ELSE exp_neg(sensitivity_factor * latency)

calculate_simple_score(latency) ==
    IF latency <= 0 THEN Fine \div 2 ELSE _latency_to_score(latency)

\* variant: the forecast is blended in from the confidence that selects the full path
health_score_raw_blend_early(current_latency, predicted_latency, error_rate, is_anom, anomaly_score, trend, prediction_confidence) ==
    LET current_latency_score == _latency_to_score(current_latency)
        error_rate_score == Max(0, One - error_rate)
        trend_score ==
            IF prediction_confidence > 2000 * One
            THEN MulFine(current_latency_score, Fine - prediction_confidence)
                 + MulFine(_latency_to_score(predicted_latency), prediction_confidence)
            ELSE current_latency_score
        stability_score == Max(0, One - anomaly_score)
        h0 == Scale(current_latency_score, WEIGHTS.current_latency)
              + WEIGHTS.error_rate * error_rate_score
              + Scale(trend_score, WEIGHTS.predicted_trend)
              + WEIGHTS.anomaly_score * stability_score
        h1 == IF is_anom THEN h0 \div 2 ELSE h0
        h2 == IF trend = "degrading" THEN (h1 \div 10) * 9
              ELSE IF trend = "improving" THEN h1 + h1 \div 20
              ELSE h1
    IN  Max(Fine \div 100, Min(Fine, h2))

\* NodeHealth.health_score of calculate_health, in units of 1e-8;
\* prediction_confidence is in units of 1e-8 as predict returns it
health_score_raw(current_latency, predicted_latency, error_rate, is_anom, anomaly_score, trend, prediction_confidence) ==
    LET current_latency_score == _latency_to_score(current_latency)
        error_rate_score == Max(0, One - error_rate)
        trend_score ==
            IF prediction_confidence > 3000 * One
            THEN MulFine(current_latency_score, Fine - prediction_confidence)
                 + MulFine(_latency_to_score(predicted_latency), prediction_confidence)
            ELSE current_latency_score
        stability_score == Max(0, One - anomaly_score)
        h0 == Scale(current_latency_score, WEIGHTS.current_latency)
              + WEIGHTS.error_rate * error_rate_score
              + Scale(trend_score, WEIGHTS.predicted_trend)
              + WEIGHTS.anomaly_score * stability_score
        h1 == IF is_anom THEN h0 \div 2 ELSE h0
        h2 == IF trend = "degrading" THEN (h1 \div 10) * 9
              ELSE IF trend = "improving" THEN h1 + h1 \div 20
              ELSE h1
    IN  Max(Fine \div 100, Min(Fine, h2))

\* calculate_health(...).to_dict()
calculate_health(current_latency, predicted_latency, error_rate, is_anom, anomaly_score, trend, prediction_confidence) ==
    [health_score |-> Round4(health_score_raw(current_latency, predicted_latency,
                         error_rate, is_anom, anomaly_score, trend,
                         prediction_confidence)),
     current_latency |-> current_latency,
     predicted_latency |-> predicted_latency,
     error_rate |-> error_rate,
     is_anomaly |-> is_anom,
     anomaly_score |-> anomaly_score,
     trend |-> trend,
     confidence |-> Round4(prediction_confidence)]

\* --------------------------------------------------------- prophet_model.py
\* ProphetModel.__init__: model is None, an unfitted Prophet() or a fitted one;
\* last_trained is -1 for None, else the time of the last successful fit.
ProphetModel == [model |-> None, last_trained |-> -1, training_data |-> NoneDf, data_points_count |-> 0, last_mape |-> One]

is_trained(self) == self.model # None /\ self.last_trained # -1

needs_retrain(self, utcnow, hours) ==
    IF self.last_trained = -1 THEN TRUE ELSE (utcnow - self.last_trained) > hours

\* mape: the in-sample error of the opaque forecast, or -1 when computing it raises
_calculate_mape(df, mape) ==
    IF mape < 0 THEN One \div 2
    ELSE IF \E i \in 1..Len(df.y) : df.y[i] > 1 THEN Min(One, mape)
    ELSE One \div 2

_get_data_confidence(self) ==
    LET c == self.data_points_count
    IN  IF c = 0 THEN 0
        ELSE IF c < 60 THEN 1000 + (c * 4000) \div 60
        ELSE IF c < 1440 THEN 5000 + ((c - 60) * 4000) \div 1380
        ELSE Min(9900, 9000 + c \div 10)

\* variant: a failed fit discards the model
train_locked_reset(self, df, fit, mape, utcnow) ==
    IF fit = "ctor_raises" THEN [self |-> self, ret |-> FALSE]
    ELSE IF fit = "fit_raises"
    THEN [self |-> [self EXCEPT !.model = None], ret |-> FALSE]
    ELSE [self |-> [model |-> "fitted", last_trained |-> utcnow, training_data |-> df, data_points_count |-> Len(df.y), last_mape |-> _calculate_mape(df, mape)], ret |-> TRUE]

\* fit: "ok", "ctor_raises" (Prophet(...) raises) or "fit_raises" (model.fit raises)
train_locked(self, df, fit, mape, utcnow) ==
    IF fit = "ctor_raises" THEN [self |-> self, ret |-> FALSE]
    ELSE IF fit = "fit_raises"
    THEN [self |-> [self EXCEPT !.model = "unfitted"], ret |-> FALSE]
    ELSE [self |-> [model |-> "fitted", last_trained |-> utcnow, training_data |-> df, data_points_count |-> Len(df.y), last_mape |-> _calculate_mape(df, mape)], ret |-> TRUE]

\* variant: the length of the history is not checked
train_unchecked(self, available, df, fit, mape, utcnow) ==
    IF ~available \/ df.isNone THEN [self |-> self, ret |-> FALSE]
    ELSE train_locked(self, df, fit, mape, utcnow)

train(self, available, df, fit, mape, utcnow) ==
    IF ~available THEN [self |-> self, ret |-> FALSE]
    ELSE IF df.isNone \/ Len(df.y) < MIN_DATA_POINTS_FOR_PROPHET
    THEN [self |-> self, ret |-> FALSE]
    ELSE train_locked(self, df, fit, mape, utcnow)

\* variant: the confidence is clamped from above only
predict_confidence_unclamped(self, predicted_latency, out) ==
    LET base_confidence ==
            IF out.interval
            THEN Max(0, One - (out.width * One) \div (predicted_latency + 1))
            ELSE One \div 2
    IN  Min((Fine \div 100) * 99, Scale(base_confidence * _get_data_confidence(self), Max(0, One - self.last_mape)))

\* confidence = base_confidence * data_confidence * mape_confidence, clamped;
\* the three factors are in units of 1e-4, the confidence in units of 1e-8
predict_confidence(self, predicted_latency, out) ==
    LET base_confidence ==
            IF out.interval
            THEN Max(0, One - (out.width * One) \div (predicted_latency + 1))
            ELSE One \div 2
        data_confidence == _get_data_confidence(self)
        mape_confidence == Max(0, One - self.last_mape)
        confidence == Scale(base_confidence * data_confidence, mape_confidence)
    IN  Max(Fine \div 10, Min((Fine \div 100) * 99, confidence))

\* out: what the opaque model does: [raises, yhat, width, interval].
\* raised: an exception was caught inside; escaped: one left the method.
predict(self, available, out) ==
    IF ~available \/ self.model = None
    THEN [predicted_latency |-> 0, confidence |-> 0, raised |-> FALSE, escaped |-> FALSE]
    ELSE IF self.model = "unfitted" \/ out.raises
    THEN [predicted_latency |-> 0, confidence |-> 0, raised |-> TRUE, escaped |-> FALSE]
    ELSE LET predicted_latency == Max(0, out.yhat)
         IN  [predicted_latency |-> predicted_latency, confidence |-> predict_confidence(self, predicted_latency, out), raised |-> FALSE, escaped |-> FALSE]

\* variant: the first 10 observations are taken for the recent ones
get_trend_head(self, raises) ==
    IF self.model = None \/ self.training_data.isNone THEN "unknown"
    ELSE IF raises THEN "unknown"
    ELSE LET y == self.training_data.y
             n == Len(y)
             k == Min(10, n)
             recent == Sum(y, 1, k)
             overall == Sum(y, 1, n)
         IN  IF n = 0 \/ overall <= 0 THEN "stable"
             ELSE IF recent * n * 10 < overall * k * 9 THEN "improving"
             ELSE IF recent * n * 10 > overall * k * 11 THEN "degrading"
             ELSE "stable"

get_trend(self, raises) ==
    IF self.model = None \/ self.training_data.isNone THEN "unknown"
    ELSE IF raises THEN "unknown"
    ELSE LET y == self.training_data.y
             n == Len(y)
             k == Min(10, n)
             recent == Sum(y, n - k + 1, n)
             overall == Sum(y, 1, n)
         IN  IF n = 0 \/ overall <= 0 THEN "stable"
             ELSE IF recent * n * 10 < overall * k * 9 THEN "improving"
             ELSE IF recent * n * 10 > overall * k * 11 THEN "degrading"
             ELSE "stable"

\* ----------------------------------------------------------------- anomaly.py
AnomalyDetector == [observations |-> << >>, model |-> None, is_trained |-> FALSE]

\* variant: a full window drops its newest entry
deque_append_newest(q, x) ==
    IF Len(q) >= window_size THEN Append(SubSeq(q, 1, Len(q) - 1), x) ELSE Append(q, x)

\* deque(maxlen=window_size).append
deque_append(q, x) ==
    IF Len(q) >= window_size THEN Append(Tail(q), x) ELSE Append(q, x)

\* fit: "ok", "ctor_raises" (IsolationForest(...) raises) or "fit_raises"
_train(self, available, fit) ==
    IF ~available THEN self
    ELSE IF fit = "ctor_raises" THEN [self EXCEPT !.is_trained = FALSE]
    ELSE IF fit = "fit_raises" THEN [self EXCEPT !.model = "unfitted", !.is_trained = FALSE]
    ELSE [self EXCEPT !.model = "fitted", !.is_trained = TRUE]

\* variant: the detector is refitted one observation early
add_observation_early(self, available, latency, error_rate, fit) ==
    LET s1 == [self EXCEPT !.observations = deque_append(self.observations, [latency |-> latency, error_rate |-> error_rate])]
    IN  IF Len(s1.observations) >= min_samples - 1 THEN _train(s1, available, fit) ELSE s1

add_observation(self, available, latency, error_rate, fit) ==
    LET s1 == [self EXCEPT !.observations = deque_append(self.observations, [latency |-> latency, error_rate |-> error_rate])]
    IN  IF Len(s1.observations) >= min_samples THEN _train(s1, available, fit) ELSE s1

\* variant: the try block of is_anomaly catches nothing
is_anomaly_uncaught(self, available, out) ==
    IF ~available \/ ~self.is_trained
    THEN [is_anomaly |-> FALSE, anomaly_score |-> 0, raised |-> FALSE, escaped |-> FALSE]
    ELSE IF self.model # "fitted" \/ out.raises
    THEN [is_anomaly |-> FALSE, anomaly_score |-> 0, raised |-> TRUE, escaped |-> TRUE]
    ELSE [is_anomaly |-> (out.prediction = -1), anomaly_score |-> Max(0, Min(One, (0 - out.raw_score) - 3000)), raised |-> FALSE, escaped |-> FALSE]

\* out: what the opaque detector does: [raises, prediction, raw_score].
\* raised: an exception was caught inside; escaped: one left the method.
is_anomaly(self, available, out) ==
    IF ~available \/ ~self.is_trained
    THEN [is_anomaly |-> FALSE, anomaly_score |-> 0, raised |-> FALSE, escaped |-> FALSE]
    ELSE IF self.model # "fitted" \/ out.raises
    THEN [is_anomaly |-> FALSE, anomaly_score |-> 0, raised |-> TRUE, escaped |-> FALSE]
    ELSE [is_anomaly |-> (out.prediction = -1), anomaly_score |-> Max(0, Min(One, (0 - out.raw_score) - 3000)), raised |-> FALSE, escaped |-> FALSE]

\* ------------------------------------------------------------- input domains
\* latencies (ms) and error rates the metrics source reports
Latencies == {0, 10, 500}
ErrorRates == {0, 2000}

\* a history of n points: the last ten at latency b, the ones before at a
Hist(n, a, b) == [i \in 1..n |-> IF i > n - 10 THEN b ELSE a]

\* what get_historical_latency can return: None, too short, flat, falling, rising, all zero
Histories ==
    { NoneDf,
      Df(Hist(MIN_DATA_POINTS_FOR_PROPHET - 1, 10, 10)),
      Df(Hist(MIN_DATA_POINTS_FOR_PROPHET, 10, 10)),
      Df(Hist(MIN_DATA_POINTS_FOR_PROPHET, 50, 10)),
      Df(Hist(MIN_DATA_POINTS_FOR_PROPHET + 1, 10, 50)),
      Df(Hist(MIN_DATA_POINTS_FOR_PROPHET, 0, 0)) }

FitOutcomes == {"ok", "ctor_raises", "fit_raises"}
MapeOutcomes == {-1, 0, 3000, 12000}

PredictOutcomes ==
    { [raises |-> TRUE, yhat |-> 0, width |-> 0, interval |-> TRUE],
      [raises |-> FALSE, yhat |-> -5, width |-> 0, interval |-> TRUE],
      [raises |-> FALSE, yhat |-> 50, width |-> 0, interval |-> TRUE],
      [raises |-> FALSE, yhat |-> 50, width |-> 45, interval |-> TRUE],
      [raises |-> FALSE, yhat |-> 10, width |-> 0, interval |-> FALSE] }

ClassifyOutcomes ==
    { [raises |-> TRUE, prediction |-> 1, raw_score |-> 0],
      [raises |-> FALSE, prediction |-> 1, raw_score |-> -2000],
      [raises |-> FALSE, prediction |-> -1, raw_score |-> -8000],
      [raises |-> FALSE, prediction |-> -1, raw_score |-> -14000] }

\* the observation stream of the detector harness: free for the first
\* FreeAdds additions, then a fixed cycle of three distinct observations
ObsCycle(i) == [latency |-> 10 * (i % 3), error_rate |-> 0]
ObsInputs(i) ==
    IF i <= FreeAdds
    THEN { [latency |-> 0, error_rate |-> 0], [latency |-> 500, error_rate |-> 2000] }
    ELSE { ObsCycle(i) }

\* -------------------------------------------------------------------- state
VARIABLES
    PROPHET_AVAILABLE,  \* prophet_model.py: the import of prophet succeeded
    SKLEARN_AVAILABLE,  \* anomaly.py: the import of sklearn succeeded
    models,             \* prophet_registry.models: node -> instance id, 0 = absent
    detectors,          \* anomaly_registry.detectors: node -> instance id, 0 = absent
    nextId,             \* the identity the next constructed instance gets
    regLock,            \* registry kind -> thread holding its lock, 0 = free
    tpc, tkind, tkey,   \* a thread inside get_or_create: position, registry, key
    got,                \* history: what the last get returned
    returned,           \* history: every <<kind, key, instance>> get_or_create returned
    created,            \* history: every <<kind, key, instance>> inserted
    forecast,           \* node -> fields of its ProphetModel
    anomaly,            \* node -> fields of its AnomalyDetector
    obsLog,             \* history: node -> every observation added, in order
    now,                \* datetime.utcnow() in hours
    lastCall,           \* history: the last direct method call, its arguments and result
    pc,                 \* the scoring request: "idle", "loop", "done" or "error"
    nodes,              \* the request's node list
    idx,                \* the position of the for loop in nodes
    prometheus_available,
    current_latencies,
    current_errors,
    results,            \* the request's results dict
    nodes_needing_training,
    failed,             \* history: the internal failures caught during the request
    query_failed,       \* history: the metric queries of the request errored
    loopLog,            \* history: the last pass of the request's loop: its node, is_trained(), needs_retrain() and what predict returned
    requests,           \* the number of scoring requests started
    background_tasks,   \* the train_models jobs not yet finished: [nodes, i]
    bgLog,              \* history: the last pass of a background job: its job, node, history and outcome
    bgTrain,            \* the background job that is inside train, and its history; j = 0: none
    trainCalls,         \* the number of /train requests served
    selfLock,           \* ProphetModel.lock of node n1: the thread holding it, 0 = free
    mpc,                \* a thread inside train or predict of that model: its position
    mdf,                \* the history a thread inside train was called with
    readMidFit,         \* history: a predict read self.model while a train was between replacing and fitting it
    modelLock,          \* kind -> node -> the thread holding that instance's self.lock, 0 = free
    top                 \* the model operation a thread is inside

regVars == <<models, detectors, nextId, regLock, tpc, tkind, tkey, got, returned, created>>
modelVars == <<forecast, anomaly, obsLog>>
libVars == <<PROPHET_AVAILABLE, SKLEARN_AVAILABLE>>
reqVars == <<pc, nodes, idx, prometheus_available, current_latencies, current_errors, results, nodes_needing_training, failed, query_failed, loopLog, requests>>
bgVars == <<background_tasks, bgLog, bgTrain, trainCalls>>
thrVars == <<selfLock, mpc, mdf, readMidFit>>
lockVars == <<modelLock, top>>
vars == <<regVars, modelVars, libVars, thrVars, lockVars, now, lastCall, reqVars, bgVars>>

NoCall == [op |-> "none"]

InitRegistries ==
    /\ models = [n \in Nodes |-> 0]
    /\ detectors = [n \in Nodes |-> 0]
    /\ nextId = 1
    /\ regLock = [k \in Kinds |-> 0]
    /\ tpc = [t \in Threads |-> "idle"]
    /\ tkind = [t \in Threads |-> "forecast"]
    /\ tkey = [t \in Threads |-> "n1"]
    /\ got = [kind |-> "forecast", key |-> "n1", id |-> 0]
    /\ returned = {}
    /\ created = {}

InitModels ==
    /\ forecast = [n \in Nodes |-> ProphetModel]
    /\ anomaly = [n \in Nodes |-> AnomalyDetector]
    /\ obsLog = [n \in Nodes |-> << >>]
    /\ now = 0
    /\ lastCall = NoCall

\* no pass of the loop of a scoring request yet
NoLoopPass == [node |-> None, trained |-> FALSE, due |-> FALSE, predicted_latency |-> 0, confidence |-> 0, classified |-> AnomalyDetector]

\* no pass of a background job yet
NoPass == [nodes |-> << >>, i |-> 0, node |-> None, raises |-> FALSE, points |-> 0, called |-> FALSE, trained |-> FALSE]

InitThreads ==
    /\ modelLock = [k \in Kinds |-> [n \in Nodes |-> 0]]
    /\ top = [t \in Threads |-> "none"]
    /\ selfLock = 0
    /\ mpc = [t \in Threads |-> "idle"]
    /\ mdf = [t \in Threads |-> NoneDf]
    /\ readMidFit = FALSE

InitRequests ==
    /\ pc = "idle"
    /\ nodes = << >>
    /\ idx = 1
    /\ prometheus_available = TRUE
    /\ current_latencies = << >>
    /\ current_errors = << >>
    /\ results = << >>
    /\ nodes_needing_training = << >>
    /\ failed = {}
    /\ query_failed = FALSE
    /\ loopLog = NoLoopPass
    /\ requests = 0
    /\ background_tasks = << >>
    /\ bgLog = NoPass
    /\ bgTrain = [j |-> 0, df |-> NoneDf]
    /\ trainCalls = 0

\* ----------------------------------------------------------- the registries
registry(kind) == IF kind = "forecast" THEN models ELSE detectors

\* variant: the lock excludes nobody
lock_free_always(kind) == TRUE

\* threading.Lock: acquirable only while no thread holds it
lock_free(kind) == regLock[kind] = 0

\* `with self.lock:` of get_or_create
get_or_create_acquire(t, kind, node) ==
    /\ tpc[t] = "idle"
    /\ lock_free(kind)
    /\ regLock' = [regLock EXCEPT ![kind] = t]
    /\ tpc' = [tpc EXCEPT ![t] = "check"]
    /\ tkind' = [tkind EXCEPT ![t] = kind]
    /\ tkey' = [tkey EXCEPT ![t] = node]
    /\ UNCHANGED <<models, detectors, nextId, got, returned, created>>
    /\ UNCHANGED <<modelVars, libVars, thrVars, lockVars, now, lastCall, reqVars, bgVars>>

\* `if node not in self.models:`
get_or_create_check(t) ==
    /\ tpc[t] = "check"
    /\ tpc' = [tpc EXCEPT ![t] = IF registry(tkind[t])[tkey[t]] = 0 THEN "insert" ELSE "return"]
    /\ UNCHANGED <<models, detectors, nextId, regLock, tkind, tkey, got, returned, created>>
    /\ UNCHANGED <<modelVars, libVars, thrVars, lockVars, now, lastCall, reqVars, bgVars>>

\* `self.models[node] = ProphetModel(node)`: a fresh instance is stored
get_or_create_insert(t) ==
    /\ tpc[t] = "insert"
    /\ IF tkind[t] = "forecast"
       THEN /\ models' = [models EXCEPT ![tkey[t]] = nextId]
            /\ forecast' = [forecast EXCEPT ![tkey[t]] = ProphetModel]
            /\ UNCHANGED <<detectors, anomaly, obsLog>>
       ELSE /\ detectors' = [detectors EXCEPT ![tkey[t]] = nextId]
            /\ anomaly' = [anomaly EXCEPT ![tkey[t]] = AnomalyDetector]
            /\ obsLog' = [obsLog EXCEPT ![tkey[t]] = << >>]
            /\ UNCHANGED <<models, forecast>>
    /\ created' = created \cup {<<tkind[t], tkey[t], nextId>>}
    /\ nextId' = nextId + 1
    /\ tpc' = [tpc EXCEPT ![t] = "return"]
    /\ UNCHANGED <<regLock, tkind, tkey, got, returned>>
    /\ UNCHANGED <<libVars, thrVars, lockVars, now, lastCall, reqVars, bgVars>>

\* variant: the registry lock is still held when get_or_create has returned
get_or_create_return_held(t) ==
    /\ tpc[t] = "return"
    /\ returned' = returned \cup {<<tkind[t], tkey[t], registry(tkind[t])[tkey[t]]>>}
    /\ tpc' = [tpc EXCEPT ![t] = "idle"]
    /\ UNCHANGED <<models, detectors, nextId, regLock, tkind, tkey, got, created>>
    /\ UNCHANGED <<modelVars, libVars, thrVars, lockVars, now, lastCall, reqVars, bgVars>>

\* `return self.models[node]`, leaving the with block
get_or_create_return(t) ==
    /\ tpc[t] = "return"
    /\ returned' = returned \cup {<<tkind[t], tkey[t], registry(tkind[t])[tkey[t]]>>}
    /\ regLock' = [regLock EXCEPT ![tkind[t]] = 0]
    /\ tpc' = [tpc EXCEPT ![t] = "idle"]
    /\ UNCHANGED <<models, detectors, nextId, tkind, tkey, got, created>>
    /\ UNCHANGED <<modelVars, libVars, thrVars, lockVars, now, lastCall, reqVars, bgVars>>

\* get: `return self.models.get(node)`, no lock taken; id 0 is None
get(t, kind, node) ==
    /\ tpc[t] = "idle"
    /\ got' = [kind |-> kind, key |-> node, id |-> registry(kind)[node]]
    /\ UNCHANGED <<models, detectors, nextId, regLock, tpc, tkind, tkey, returned, created>>
    /\ UNCHANGED <<modelVars, libVars, thrVars, lockVars, now, lastCall, reqVars, bgVars>>

\* ------------------------------- threads inside the operations of the models
ModelOps(kind) == IF kind = "forecast" THEN {"train", "predict"} ELSE {"add_observation", "is_anomaly"}

\* the operation reaches its `with self.lock:`; the checks before the lock
\* of train, predict and is_anomaly have passed
reaches_lock(kind, node, op) ==
    CASE op = "train" -> PROPHET_AVAILABLE
      [] op = "predict" -> PROPHET_AVAILABLE /\ forecast[node].model # None
      [] op = "add_observation" -> TRUE
      [] op = "is_anomaly" -> SKLEARN_AVAILABLE /\ anomaly[node].is_trained

\* threading.Lock of one instance: acquirable only while no thread holds it
model_lock_free(kind, node) == modelLock[kind][node] = 0

\* `with self.lock:` of train, predict, add_observation or is_anomaly
model_acquire(t, kind, node, op) ==
    /\ tpc[t] = "idle"
    /\ registry(kind)[node] # 0
    /\ reaches_lock(kind, node, op)
    /\ model_lock_free(kind, node)
    /\ modelLock' = [modelLock EXCEPT ![kind][node] = t]
    /\ top' = [top EXCEPT ![t] = op]
    /\ tpc' = [tpc EXCEPT ![t] = "in_model"]
    /\ tkind' = [tkind EXCEPT ![t] = kind]
    /\ tkey' = [tkey EXCEPT ![t] = node]
    /\ UNCHANGED <<models, detectors, nextId, regLock, got, returned, created>>
    /\ UNCHANGED <<modelVars, libVars, thrVars, now, lastCall, reqVars, bgVars>>

\* the body of the with block, and leaving it. df: the history train was
\* called with; fit: what the opaque library does in train or _train
model_release(t, df, fit) ==
    /\ tpc[t] = "in_model"
    /\ LET node == tkey[t]
       IN  CASE top[t] = "train" ->
                  /\ forecast' = [forecast EXCEPT ![node] = train_locked(@, df, fit, 0, now).self]
                  /\ UNCHANGED <<anomaly, obsLog>>
             [] top[t] = "add_observation" ->
                  /\ anomaly' = [anomaly EXCEPT ![node] = add_observation(@, SKLEARN_AVAILABLE, 10, 0, fit)]
                  /\ obsLog' = [obsLog EXCEPT ![node] = Append(@, [latency |-> 10, error_rate |-> 0])]
                  /\ UNCHANGED forecast
             [] OTHER -> UNCHANGED modelVars
    /\ modelLock' = [modelLock EXCEPT ![tkind[t]][tkey[t]] = 0]
    /\ top' = [top EXCEPT ![t] = "none"]
    /\ tpc' = [tpc EXCEPT ![t] = "idle"]
    /\ UNCHANGED <<models, detectors, nextId, regLock, tkind, tkey, got, returned, created>>
    /\ UNCHANGED <<libVars, thrVars, now, lastCall, reqVars, bgVars>>

\* ------------------------------------------ direct calls on one ForecastModel
utcnow_tick ==
    /\ now + 4 <= MaxNow
    /\ now' = now + 4
    /\ UNCHANGED <<regVars, modelVars, libVars, thrVars, lockVars, lastCall, reqVars, bgVars>>

call_train(n, df, fit, mape) ==
    LET r == train(forecast[n], PROPHET_AVAILABLE, df, fit, mape, now)
    IN  /\ forecast' = [forecast EXCEPT ![n] = r.self]
        /\ lastCall' = [op |-> "train", node |-> n, pre |-> forecast[n], df |-> df, fit |-> fit, ret |-> r.ret, post |-> r.self]
        /\ UNCHANGED <<regVars, anomaly, obsLog, libVars, thrVars, lockVars, now, reqVars, bgVars>>

call_predict(n, out) ==
    /\ lastCall' = [op |-> "predict", node |-> n, pre |-> forecast[n], out |-> out, ret |-> predict(forecast[n], PROPHET_AVAILABLE, out)]
    /\ UNCHANGED <<regVars, modelVars, libVars, thrVars, lockVars, now, reqVars, bgVars>>

\* raises: computing the means raises inside the try block
call_get_trend(n, raises) ==
    /\ lastCall' = [op |-> "get_trend", node |-> n, pre |-> forecast[n], raises |-> raises, ret |-> get_trend(forecast[n], raises)]
    /\ UNCHANGED <<regVars, modelVars, libVars, thrVars, lockVars, now, reqVars, bgVars>>

\* ------------------------- threads inside train and predict of one ForecastModel
\* variant: the model's lock excludes nobody
self_lock_free_always == TRUE

\* ProphetModel.lock: acquirable only while no thread holds it
self_lock_free == selfLock = 0

\* the histories the threads call train with: too short, flat, rising
LockHistories ==
    { Df(Hist(MIN_DATA_POINTS_FOR_PROPHET - 1, 10, 10)),
      Df(Hist(MIN_DATA_POINTS_FOR_PROPHET, 10, 10)),
      Df(Hist(MIN_DATA_POINTS_FOR_PROPHET + 1, 10, 50)) }
LockMapes == {0, 3000}

\* a train between `self.model = Prophet(...)` and the end of `self.model.fit(df)`
MidFit == \E u \in Threads : mpc[u] = "fitting"

\* train up to `with self.lock:`: the checks of lines 49-55 pass or return False
train_enter(t, df) ==
    /\ mpc[t] = "idle"
    /\ IF ~PROPHET_AVAILABLE \/ df.isNone \/ Len(df.y) < MIN_DATA_POINTS_FOR_PROPHET
       THEN UNCHANGED <<mpc, mdf>>
       ELSE /\ mpc' = [mpc EXCEPT ![t] = "train_wait"]
            /\ mdf' = [mdf EXCEPT ![t] = df]
    /\ UNCHANGED <<selfLock, readMidFit>>
    /\ UNCHANGED <<regVars, modelVars, libVars, lockVars, now, lastCall, reqVars, bgVars>>

\* the lock is taken and `self.model = Prophet(...)` runs; if the constructor
\* raises, the except returns False and the lock is released at once
train_replace(t, raises) ==
    /\ mpc[t] = "train_wait"
    /\ self_lock_free
    /\ IF raises
       THEN /\ mpc' = [mpc EXCEPT ![t] = "idle"]
            /\ mdf' = [mdf EXCEPT ![t] = NoneDf]
            /\ UNCHANGED <<selfLock, forecast>>
       ELSE /\ selfLock' = t
            /\ mpc' = [mpc EXCEPT ![t] = "fitting"]
            /\ forecast' = [forecast EXCEPT !["n1"].model = "unfitted"]
            /\ UNCHANGED mdf
    /\ UNCHANGED <<anomaly, obsLog, readMidFit>>
    /\ UNCHANGED <<regVars, libVars, lockVars, now, lastCall, reqVars, bgVars>>

\* `self.model.fit(df)` ends, the state is updated or the except runs, and
\* the with block is left
train_fit(t, fit, mape) ==
    /\ mpc[t] = "fitting"
    /\ forecast' = [forecast EXCEPT !["n1"] = train_locked(@, mdf[t], fit, mape, now).self]
    /\ selfLock' = 0
    /\ mpc' = [mpc EXCEPT ![t] = "idle"]
    /\ mdf' = [mdf EXCEPT ![t] = NoneDf]
    /\ UNCHANGED <<anomaly, obsLog, readMidFit>>
    /\ UNCHANGED <<regVars, libVars, lockVars, now, lastCall, reqVars, bgVars>>

\* predict up to `with self.lock:`: line 96 returns (0.0, 0.0) or goes on
predict_enter(t) ==
    /\ mpc[t] = "idle"
    /\ PROPHET_AVAILABLE /\ forecast["n1"].model # None
    /\ mpc' = [mpc EXCEPT ![t] = "predict_wait"]
    /\ UNCHANGED <<selfLock, mdf, readMidFit>>
    /\ UNCHANGED <<regVars, modelVars, libVars, lockVars, now, lastCall, reqVars, bgVars>>

\* the lock is taken and self.model.make_future_dataframe reads the model
predict_acquire(t) ==
    /\ mpc[t] = "predict_wait"
    /\ self_lock_free
    /\ selfLock' = t
    /\ mpc' = [mpc EXCEPT ![t] = "predicting"]
    /\ readMidFit' = (readMidFit \/ MidFit)
    /\ UNCHANGED mdf
    /\ UNCHANGED <<regVars, modelVars, libVars, lockVars, now, lastCall, reqVars, bgVars>>

\* self.model.predict reads the model, the result is returned and the with
\* block is left
predict_return(t, out) ==
    /\ mpc[t] = "predicting"
    /\ readMidFit' = (readMidFit \/ MidFit)
    /\ lastCall' = [op |-> "predict", node |-> "n1", pre |-> forecast["n1"], out |-> out, ret |-> predict(forecast["n1"], PROPHET_AVAILABLE, out)]
    /\ selfLock' = IF selfLock = t THEN 0 ELSE selfLock
    /\ mpc' = [mpc EXCEPT ![t] = "idle"]
    /\ UNCHANGED mdf
    /\ UNCHANGED <<regVars, modelVars, libVars, lockVars, now, reqVars, bgVars>>

\* ---------------------------------------- direct calls on one AnomalyDetector
call_add_observation(n, obs, fit) ==
    /\ Len(obsLog[n]) < MaxAdds
    /\ anomaly' = [anomaly EXCEPT ![n] = add_observation(anomaly[n], SKLEARN_AVAILABLE, obs.latency, obs.error_rate, fit)]
    /\ obsLog' = [obsLog EXCEPT ![n] = Append(@, obs)]
    /\ lastCall' = [op |-> "add_observation", node |-> n, fit |-> fit, was_trained |-> anomaly[n].is_trained, was_model |-> anomaly[n].model]
    /\ UNCHANGED <<regVars, forecast, libVars, thrVars, lockVars, now, reqVars, bgVars>>

call_is_anomaly(n, out) ==
    /\ lastCall' = [op |-> "is_anomaly", node |-> n, out |-> out, ret |-> is_anomaly(anomaly[n], SKLEARN_AVAILABLE, out)]
    /\ UNCHANGED <<regVars, modelVars, libVars, thrVars, lockVars, now, reqVars, bgVars>>

\* a direct call of HealthScorer.calculate_health, the first call of the run
call_calculate_health(current_latency, predicted_latency, error_rate, is_anom, anomaly_score, trend, prediction_confidence) ==
    /\ lastCall = NoCall
    /\ lastCall' = [op |-> "calculate_health", current_latency |-> current_latency, predicted_latency |-> predicted_latency,
                    error_rate |-> error_rate, is_anomaly |-> is_anom, anomaly_score |-> anomaly_score, trend |-> trend,
                    prediction_confidence |-> prediction_confidence,
                    ret |-> calculate_health(current_latency, predicted_latency, error_rate, is_anom, anomaly_score, trend, prediction_confidence)]
    /\ UNCHANGED <<regVars, modelVars, libVars, thrVars, lockVars, now, reqVars, bgVars>>

\* --------------------------------------------------------------- main.py
NodeSet(ns) == { ns[i] : i \in 1..Len(ns) }
\* the node lists of the scoring requests: empty, one node, a node twice, two nodes
NodeLists == { << >>, <<"n1">>, <<"n1", "n1">>, <<"n1", "n2">> }

\* the (latency, error rate) samples the metrics source reports in the service runs
ServiceMetrics ==
    { [latency |-> 0, error_rate |-> 0],
      [latency |-> 10, error_rate |-> 2000],
      [latency |-> 500, error_rate |-> 0] }

\* what get_historical_latency, Prophet and _calculate_mape do in the service runs
ServiceHistories ==
    { NoneDf,
      Df(Hist(MIN_DATA_POINTS_FOR_PROPHET - 1, 10, 10)),
      Df(Hist(MIN_DATA_POINTS_FOR_PROPHET, 10, 50)) }
ServiceMapes == {0, 12000}
Trainable(df) == ~df.isNone /\ Len(df.y) >= MIN_DATA_POINTS_FOR_PROPHET

\* get_or_create run to completion: the registry dict after the call
get_or_create(reg, node, id) == IF reg[node] = 0 THEN [reg EXCEPT ![node] = id] ELSE reg

\* the entry of the results dict on the path `confidence <= 0.2`
fallback_result(current_latency, error_rate, cls) ==
    LET simple_score == calculate_simple_score(current_latency)
        penalised == IF error_rate > 1000 THEN Scale(simple_score, One - error_rate) ELSE simple_score
    IN  [health_score |-> Round4(penalised),
         current_latency |-> current_latency,
         predicted_latency |-> current_latency,
         error_rate |-> error_rate,
         is_anomaly |-> cls.is_anomaly,
         anomaly_score |-> cls.anomaly_score,
         trend |-> "unknown",
         confidence |-> 0]

default_result == [health_score |-> One \div 2, confidence |-> 0]

\* variant: the models of the nodes are created before the availability check
get_detailed_predictions_unavailable_created(ns) ==
    /\ pc' = "done"
    /\ nodes' = ns
    /\ prometheus_available' = FALSE
    /\ results' = [n \in NodeSet(ns) |-> default_result]
    /\ models' = [n \in Nodes |-> IF n \in NodeSet(ns) /\ models[n] = 0 THEN nextId ELSE models[n]]
    /\ UNCHANGED <<detectors, nextId, regLock, tpc, tkind, tkey, got, returned, created>>
    /\ UNCHANGED <<idx, current_latencies, current_errors, nodes_needing_training, failed, query_failed, loopLog>>
    /\ UNCHANGED <<modelVars, bgVars>>

\* _get_detailed_predictions when is_available() is false
get_detailed_predictions_unavailable(ns) ==
    /\ pc' = "done"
    /\ nodes' = ns
    /\ prometheus_available' = FALSE
    /\ results' = [n \in NodeSet(ns) |-> default_result]
    /\ UNCHANGED <<idx, current_latencies, current_errors, nodes_needing_training, failed, query_failed, loopLog>>
    /\ UNCHANGED <<regVars, modelVars, bgVars>>

\* _get_detailed_predictions up to the for loop: the metrics are collected
get_detailed_predictions_collect(ns, lat, err) ==
    /\ pc' = "loop"
    /\ nodes' = ns
    /\ prometheus_available' = TRUE
    /\ current_latencies' = lat
    /\ current_errors' = err
    /\ results' = << >>
    /\ nodes_needing_training' = << >>
    /\ idx' = 1
    /\ failed' = {}
    /\ query_failed' = FALSE
    /\ loopLog' = NoLoopPass
    /\ UNCHANGED <<regVars, modelVars, bgVars>>

\* _get_detailed_predictions up to the for loop when the metric queries error:
\* query returns None, get_current_latency returns {} and get_error_rate
\* returns 0 for every node, so every `.get(node, 0)` of the loop gives 0
get_detailed_predictions_query_error(ns) ==
    /\ pc' = "loop"
    /\ nodes' = ns
    /\ prometheus_available' = TRUE
    /\ current_latencies' = [n \in NodeSet(ns) |-> 0]
    /\ current_errors' = [n \in NodeSet(ns) |-> 0]
    /\ results' = << >>
    /\ nodes_needing_training' = << >>
    /\ idx' = 1
    /\ failed' = {}
    /\ query_failed' = TRUE
    /\ loopLog' = NoLoopPass
    /\ UNCHANGED <<regVars, modelVars, bgVars>>

\* the asyncio event loop runs one coroutine at a time, from one await to the
\* next: it is free when no scoring request is being handled (the handler has
\* no await) and no background job is inside the synchronous train call
event_loop_free == pc = "idle" /\ bgTrain.j = 0

\* a scoring request arrives (/predict or /predict/detailed)
get_detailed_predictions ==
    /\ event_loop_free
    /\ requests < NumRequests
    /\ requests' = requests + 1
    /\ \E ns \in NodeLists :
          \/ get_detailed_predictions_unavailable(ns)
          \/ get_detailed_predictions_query_error(ns)
          \/ \E m \in [NodeSet(ns) -> ServiceMetrics] :
                get_detailed_predictions_collect(ns, [n \in NodeSet(ns) |-> m[n].latency], [n \in NodeSet(ns) |-> m[n].error_rate])
    /\ UNCHANGED <<libVars, thrVars, lockVars, now, lastCall>>

\* variant: the node is classified before its observation is added
classified_detector_before(detector0, anomaly_detector) == detector0

\* the detector is_anomaly is called on: the one add_observation has just
\* updated (detector0 is the detector as get_or_create returned it)
classified_detector(detector0, anomaly_detector) == anomaly_detector

\* variant: a stale model is scheduled for training whether trained or not
schedule_training_stale(prophet_model, utcnow) == needs_retrain(prophet_model, utcnow, 6)

\* the node is appended to nodes_needing_training: the else branch of
\* `if prophet_model.is_trained()` and then `if prophet_model.needs_retrain()`
schedule_training(prophet_model, utcnow) == ~is_trained(prophet_model) /\ needs_retrain(prophet_model, utcnow, 6)

\* variant: the full formula needs the confidence calculate_health blends at
full_scoring_blend(confidence) == confidence > 3000 * One

\* `if confidence > 0.2:` chooses the full multi-dimensional scoring
full_scoring(confidence) == confidence > 2000 * One

\* one pass of `for node in nodes:` with the outcomes fit, cout, pout, traises
\* of the opaque libraries in add_observation, is_anomaly, predict, get_trend.
\* latency_now, error_now, latency_pred, conf and trend_now are the loop's
\* current_latency, error_rate, predicted_latency, confidence and trend.
loop_body(fit, cout, pout, traises) ==
    LET node == nodes[idx]
        latency_now == current_latencies[node]
        error_now == current_errors[node]
        newModel == models[node] = 0
        newDetector == detectors[node] = 0
        detectorId == IF newModel THEN nextId + 1 ELSE nextId
        prophet_model == IF newModel THEN ProphetModel ELSE forecast[node]
        detector0 == IF newDetector THEN AnomalyDetector ELSE anomaly[node]
        anomaly_detector == add_observation(detector0, SKLEARN_AVAILABLE, latency_now, error_now, fit)
        cls == is_anomaly(classified_detector(detector0, anomaly_detector), SKLEARN_AVAILABLE, cout)
        trained == is_trained(prophet_model)
        p == predict(prophet_model, PROPHET_AVAILABLE, pout)
        latency_pred == IF trained THEN p.predicted_latency ELSE latency_now
        conf == IF trained THEN p.confidence ELSE 0
        trend_now == IF trained THEN get_trend(prophet_model, traises) ELSE "unknown"
        caught ==
            (IF SKLEARN_AVAILABLE /\ fit # "ok" /\ Len(anomaly_detector.observations) >= min_samples THEN {"fit"} ELSE {})
            \cup (IF cls.raised THEN {"classify"} ELSE {})
            \cup (IF trained /\ p.raised THEN {"predict"} ELSE {})
            \cup (IF trained /\ traises /\ ~prophet_model.training_data.isNone THEN {"trend"} ELSE {})
        escaped == cls.escaped \/ (trained /\ p.escaped)
    IN  /\ models' = get_or_create(models, node, nextId)
        /\ detectors' = get_or_create(detectors, node, detectorId)
        /\ nextId' = nextId + (IF newModel THEN 1 ELSE 0) + (IF newDetector THEN 1 ELSE 0)
        /\ created' = created \cup {<<"forecast", node, models'[node]>>, <<"anomaly", node, detectors'[node]>>}
        /\ returned' = returned \cup {<<"forecast", node, models'[node]>>, <<"anomaly", node, detectors'[node]>>}
        /\ forecast' = [forecast EXCEPT ![node] = prophet_model]
        /\ anomaly' = [anomaly EXCEPT ![node] = anomaly_detector]
        /\ obsLog' = [obsLog EXCEPT ![node] = Append(IF newDetector THEN << >> ELSE @, [latency |-> latency_now, error_rate |-> error_now])]
        /\ failed' = failed \cup caught
        /\ loopLog' = [node |-> node, trained |-> trained, due |-> needs_retrain(prophet_model, now, 6),
                        predicted_latency |-> latency_pred, confidence |-> conf,
                        classified |-> classified_detector(detector0, anomaly_detector)]
        /\ IF escaped
           THEN /\ pc' = "error"
                /\ UNCHANGED <<results, nodes_needing_training, idx>>
           ELSE /\ pc' = pc
                /\ idx' = idx + 1
                /\ nodes_needing_training' =
                      IF schedule_training(prophet_model, now)
                      THEN Append(nodes_needing_training, node)
                      ELSE nodes_needing_training
                /\ results' = (node :> (IF full_scoring(conf)
                                        THEN calculate_health(latency_now, latency_pred, error_now, cls.is_anomaly, cls.anomaly_score, trend_now, conf)
                                        ELSE fallback_result(latency_now, error_now, cls))) @@ results

\* the for loop has a node left to process: `for node in nodes`
loop_ready == pc = "loop" /\ idx <= Len(nodes) /\ \A k \in Kinds : regLock[k] = 0

\* the outcomes are drawn only for the library calls the pass really makes
get_detailed_predictions_loop ==
    /\ loop_ready
    /\ LET node == nodes[idx]
           refits == SKLEARN_AVAILABLE /\ (IF detectors[node] = 0 THEN 1 ELSE Min(window_size, Len(anomaly[node].observations) + 1)) >= min_samples
           trained == models[node] # 0 /\ is_trained(forecast[node])
       IN  \E fit \in (IF refits THEN FitOutcomes ELSE {"ok"}) :
           \E cout \in (IF refits /\ fit = "ok" THEN ClassifyOutcomes ELSE {CHOOSE o \in ClassifyOutcomes : o.raises}) :
           \E pout \in (IF trained THEN PredictOutcomes ELSE {CHOOSE o \in PredictOutcomes : o.raises}) :
           \E traises \in (IF trained THEN BOOLEAN ELSE {FALSE}) :
              loop_body(fit, cout, pout, traises)
    /\ UNCHANGED <<regLock, tpc, tkind, tkey, got>>
    /\ UNCHANGED <<nodes, prometheus_available, current_latencies, current_errors, query_failed, requests>>
    /\ UNCHANGED <<libVars, thrVars, lockVars, now, lastCall, bgVars>>

\* variant: the request returns without scheduling the background job
get_detailed_predictions_return_unscheduled ==
    /\ pc = "loop"
    /\ idx > Len(nodes)
    /\ pc' = "done"
    /\ UNCHANGED <<nodes, idx, prometheus_available, current_latencies, current_errors, results, nodes_needing_training, failed, query_failed, loopLog, requests>>
    /\ UNCHANGED <<regVars, modelVars, libVars, thrVars, lockVars, now, lastCall, bgVars>>

\* variant: the request trains its flagged nodes itself before it returns
get_detailed_predictions_return_trains ==
    /\ pc = "loop"
    /\ idx > Len(nodes)
    /\ pc' = "done"
    /\ forecast' = [n \in Nodes |->
                      IF n \in NodeSet(nodes_needing_training)
                      THEN train(forecast[n], PROPHET_AVAILABLE, Df(Hist(MIN_DATA_POINTS_FOR_PROPHET, 10, 10)), "ok", 0, now).self
                      ELSE forecast[n]]
    /\ UNCHANGED <<nodes, idx, prometheus_available, current_latencies, current_errors, results, nodes_needing_training, failed, query_failed, loopLog, requests>>
    /\ UNCHANGED <<regVars, anomaly, obsLog, libVars, thrVars, lockVars, now, lastCall, bgVars>>

\* after the loop: the flagged nodes are handed to background_tasks, results returned
get_detailed_predictions_return ==
    /\ pc = "loop"
    /\ idx > Len(nodes)
    /\ pc' = "done"
    /\ background_tasks' =
          IF nodes_needing_training # << >>
          THEN Append(background_tasks, [nodes |-> nodes_needing_training, i |-> 1])
          ELSE background_tasks
    /\ UNCHANGED <<nodes, idx, prometheus_available, current_latencies, current_errors, results, nodes_needing_training, failed, query_failed, loopLog, requests>>
    /\ UNCHANGED <<regVars, modelVars, libVars, thrVars, lockVars, now, lastCall, bgLog, bgTrain, trainCalls>>

\* POST /predict/detailed answers with what _get_detailed_predictions returned;
\* the handler ran without an await, and its locals end with it
predict_health_scores_detailed ==
    /\ pc = "done"
    /\ pc' = "idle"
    /\ nodes' = << >>
    /\ idx' = 1
    /\ prometheus_available' = TRUE
    /\ current_latencies' = << >>
    /\ current_errors' = << >>
    /\ results' = << >>
    /\ nodes_needing_training' = << >>
    /\ failed' = {}
    /\ query_failed' = FALSE
    /\ loopLog' = NoLoopPass
    /\ UNCHANGED <<requests, background_tasks, bgLog, bgTrain, trainCalls>>
    /\ UNCHANGED <<regVars, modelVars, libVars, thrVars, lockVars, now, lastCall>>

\* variant: the return value of train is ignored
train_model_unchecked(node, df, fit, mape) ==
    /\ event_loop_free
    /\ trainCalls < MaxTrainCalls
    /\ trainCalls' = trainCalls + 1
    /\ \A k \in Kinds : regLock[k] = 0
    /\ IF df.isNone \/ Len(df.y) < MIN_DATA_POINTS_FOR_PROPHET
       THEN /\ lastCall' = [op |-> "train_model", node |-> node, df |-> df, ret |-> FALSE,
                            response |-> [status |-> "insufficient_data", data_points |-> Len(df.y), required |-> MIN_DATA_POINTS_FOR_PROPHET]]
            /\ UNCHANGED <<regVars, modelVars>>
       ELSE LET prophet_model == IF models[node] = 0 THEN ProphetModel ELSE forecast[node]
                r == train(prophet_model, PROPHET_AVAILABLE, df, fit, mape, now)
            IN  /\ models' = get_or_create(models, node, nextId)
                /\ nextId' = nextId + (IF models[node] = 0 THEN 1 ELSE 0)
                /\ created' = created \cup {<<"forecast", node, models'[node]>>}
                /\ returned' = returned \cup {<<"forecast", node, models'[node]>>}
                /\ forecast' = [forecast EXCEPT ![node] = r.self]
                /\ lastCall' = [op |-> "train_model", node |-> node, df |-> df, ret |-> r.ret,
                                response |-> [status |-> "trained", data_points |-> Len(df.y), mape |-> r.self.last_mape]]
                /\ UNCHANGED <<detectors, regLock, tpc, tkind, tkey, got, anomaly, obsLog>>
    /\ UNCHANGED <<libVars, thrVars, lockVars, now, reqVars, background_tasks, bgLog, bgTrain>>

\* POST /train for one node; df is what get_historical_latency returns
train_model(node, df, fit, mape) ==
    /\ event_loop_free
    /\ trainCalls < MaxTrainCalls
    /\ trainCalls' = trainCalls + 1
    /\ \A k \in Kinds : regLock[k] = 0
    /\ IF df.isNone \/ Len(df.y) < MIN_DATA_POINTS_FOR_PROPHET
       THEN /\ lastCall' = [op |-> "train_model", node |-> node, df |-> df, ret |-> FALSE,
                            response |-> [status |-> "insufficient_data", data_points |-> Len(df.y), required |-> MIN_DATA_POINTS_FOR_PROPHET]]
            /\ UNCHANGED <<regVars, modelVars>>
       ELSE LET prophet_model == IF models[node] = 0 THEN ProphetModel ELSE forecast[node]
                r == train(prophet_model, PROPHET_AVAILABLE, df, fit, mape, now)
            IN  /\ models' = get_or_create(models, node, nextId)
                /\ nextId' = nextId + (IF models[node] = 0 THEN 1 ELSE 0)
                /\ created' = created \cup {<<"forecast", node, models'[node]>>}
                /\ returned' = returned \cup {<<"forecast", node, models'[node]>>}
                /\ forecast' = [forecast EXCEPT ![node] = r.self]
                /\ lastCall' = [op |-> "train_model", node |-> node, df |-> df, ret |-> r.ret,
                                response |-> IF r.ret
                                             THEN [status |-> "trained", data_points |-> Len(df.y), mape |-> r.self.last_mape]
                                             ELSE [status |-> "failed"]]
                /\ UNCHANGED <<detectors, regLock, tpc, tkind, tkey, got, anomaly, obsLog>>
    /\ UNCHANGED <<libVars, thrVars, lockVars, now, reqVars, background_tasks, bgLog, bgTrain>>

\* job j resumes, fetches a long enough history and enters the synchronous
\* `prophet_model.train(df)`: the coroutine keeps the event loop
train_models_enter(j, df) ==
    /\ event_loop_free
    /\ j \in 1..Len(background_tasks)
    /\ Trainable(df)
    /\ bgTrain' = [j |-> j, df |-> df]
    /\ UNCHANGED <<background_tasks, bgLog, trainCalls>>
    /\ UNCHANGED <<regVars, modelVars, libVars, thrVars, lockVars, now, lastCall, reqVars>>

\* the body of one pass of train_models job j for its node: the history is
\* fetched, train is called when it is long enough, every exception is caught
train_models_body(j, raises, df, fit, mape) ==
    LET job == background_tasks[j]
        node == job.nodes[job.i]
        trains == ~raises /\ ~df.isNone /\ Len(df.y) >= MIN_DATA_POINTS_FOR_PROPHET
        prophet_model == IF models[node] = 0 THEN ProphetModel ELSE forecast[node]
        r == train(prophet_model, PROPHET_AVAILABLE, df, fit, mape, now)
    IN  /\ bgLog' = [nodes |-> job.nodes, i |-> job.i, node |-> node, raises |-> raises,
                     points |-> Len(df.y), called |-> trains, trained |-> trains /\ r.ret]
        /\ IF trains
           THEN /\ models' = get_or_create(models, node, nextId)
                /\ nextId' = nextId + (IF models[node] = 0 THEN 1 ELSE 0)
                /\ created' = created \cup {<<"forecast", node, models'[node]>>}
                /\ returned' = returned \cup {<<"forecast", node, models'[node]>>}
                /\ forecast' = [forecast EXCEPT ![node] = r.self]
                /\ UNCHANGED <<detectors, regLock, tpc, tkind, tkey, got, anomaly, obsLog>>
           ELSE UNCHANGED <<regVars, modelVars>>

\* the queue without job j
without(tasks, j) == [k \in 1..(Len(tasks) - 1) |-> IF k < j THEN tasks[k] ELSE tasks[k + 1]]

\* variant: a pass that raises or whose training fails ends its job
train_models_aborting(j, raises, df, fit, mape) ==
    /\ pc = "idle"
    /\ j \in 1..Len(background_tasks)
    /\ bgTrain = IF ~raises /\ Trainable(df) THEN [j |-> j, df |-> df] ELSE [j |-> 0, df |-> NoneDf]
    /\ bgTrain' = [j |-> 0, df |-> NoneDf]
    /\ train_models_body(j, raises, df, fit, mape)
    /\ background_tasks' =
          IF background_tasks[j].i >= Len(background_tasks[j].nodes) \/ raises \/ (bgLog'.called /\ ~bgLog'.trained)
          THEN without(background_tasks, j)
          ELSE [background_tasks EXCEPT ![j].i = @ + 1]
    /\ UNCHANGED <<libVars, thrVars, lockVars, now, lastCall, reqVars, trainCalls>>

\* one pass of the loop of train_models job j, up to its asyncio.sleep;
\* raises: fetching the history raised; df: what get_historical_latency
\* returned. A pass that trains completes the train call it has entered.
\* After the last node the job is over.
train_models(j, raises, df, fit, mape) ==
    /\ pc = "idle"
    /\ j \in 1..Len(background_tasks)
    /\ bgTrain = IF ~raises /\ Trainable(df) THEN [j |-> j, df |-> df] ELSE [j |-> 0, df |-> NoneDf]
    /\ bgTrain' = [j |-> 0, df |-> NoneDf]
    /\ train_models_body(j, raises, df, fit, mape)
    /\ background_tasks' =
          IF background_tasks[j].i >= Len(background_tasks[j].nodes)
          THEN without(background_tasks, j)
          ELSE [background_tasks EXCEPT ![j].i = @ + 1]
    /\ UNCHANGED <<libVars, thrVars, lockVars, now, lastCall, reqVars, trainCalls>>

\* the outcomes of Prophet are drawn only when train reaches the fit
TrainOutcomes(df) ==
    IF PROPHET_AVAILABLE /\ Trainable(df)
    THEN { <<fit, mape>> : fit \in FitOutcomes, mape \in ServiceMapes }
    ELSE { <<"ok", 0>> }

\* ------------------------------------------------------------ specifications
\* threads calling get_or_create and get on both registries
InitRegistry ==
    /\ PROPHET_AVAILABLE = TRUE /\ SKLEARN_AVAILABLE = TRUE
    /\ InitRegistries /\ InitModels /\ InitRequests /\ InitThreads

NextRegistry ==
    \E t \in Threads :
        \/ \E kind \in Kinds, node \in Nodes : get_or_create_acquire(t, kind, node)
        \/ get_or_create_check(t)
        \/ get_or_create_insert(t)
        \/ get_or_create_return(t)
        \/ \E kind \in Kinds, node \in Nodes : get(t, kind, node)

SpecRegistry == InitRegistry /\ [][NextRegistry]_vars

\* one ForecastModel under arbitrary train and predict calls
InitForecast ==
    /\ PROPHET_AVAILABLE \in BOOLEAN /\ SKLEARN_AVAILABLE = TRUE
    /\ InitRegistries /\ InitModels /\ InitRequests /\ InitThreads

NextForecast ==
    \/ utcnow_tick
    \/ \E df \in Histories, fit \in FitOutcomes, mape \in MapeOutcomes : call_train("n1", df, fit, mape)
    \/ \E out \in PredictOutcomes : call_predict("n1", out)
    \/ \E raises \in BOOLEAN : call_get_trend("n1", raises)

SpecForecast == InitForecast /\ [][NextForecast]_vars

\* one ForecastModel with threads inside train and predict
LockPredictOutcomes == { o \in PredictOutcomes : o.raises \/ o.interval }

InitLock ==
    /\ PROPHET_AVAILABLE = TRUE /\ SKLEARN_AVAILABLE = TRUE
    /\ InitRegistries /\ InitModels /\ InitRequests /\ InitThreads

NextLock ==
    \E t \in Threads :
        \/ \E df \in LockHistories : train_enter(t, df)
        \/ \E raises \in BOOLEAN : train_replace(t, raises)
        \/ \E fit \in {"ok", "fit_raises"}, mape \in LockMapes : train_fit(t, fit, mape)
        \/ predict_enter(t)
        \/ predict_acquire(t)
        \/ \E out \in LockPredictOutcomes : predict_return(t, out)

SpecLock == InitLock /\ [][NextLock]_vars

\* one AnomalyDetector under arbitrary add_observation and is_anomaly calls
InitAnomaly ==
    /\ PROPHET_AVAILABLE = TRUE /\ SKLEARN_AVAILABLE \in BOOLEAN
    /\ InitRegistries /\ InitModels /\ InitRequests /\ InitThreads

NextAnomaly ==
    \/ \E obs \in ObsInputs(Len(obsLog["n1"]) + 1), fit \in FitOutcomes : call_add_observation("n1", obs, fit)
    \/ \E out \in ClassifyOutcomes : call_is_anomaly("n1", out)

SpecAnomaly == InitAnomaly /\ [][NextAnomaly]_vars

\* the service: scoring requests, /train requests and background jobs.
\* A node in warm has been scored min_samples - 1 times before: its models
\* exist and its detector holds that many observations, still untrained.
WarmWindow == [i \in 1..(min_samples - 1) |-> [latency |-> 10, error_rate |-> 0]]

Init ==
    /\ PROPHET_AVAILABLE \in BOOLEAN /\ SKLEARN_AVAILABLE \in BOOLEAN
    /\ InitRequests /\ InitThreads
    /\ now = 0
    /\ lastCall = NoCall
    /\ regLock = [k \in Kinds |-> 0]
    /\ tpc = [t \in Threads |-> "idle"]
    /\ tkind = [t \in Threads |-> "forecast"]
    /\ tkey = [t \in Threads |-> "n1"]
    /\ got = [kind |-> "forecast", key |-> "n1", id |-> 0]
    /\ \E warm \in {{}, Nodes} :
          /\ models = [n \in Nodes |-> IF n \in warm THEN (IF n = "n1" THEN 1 ELSE 3) ELSE 0]
          /\ detectors = [n \in Nodes |-> IF n \in warm THEN (IF n = "n1" THEN 2 ELSE 4) ELSE 0]
          /\ nextId = 1 + 2 * Cardinality(warm)
          /\ created = { <<"forecast", n, models[n]>> : n \in warm } \cup { <<"anomaly", n, detectors[n]>> : n \in warm }
          /\ returned = created
          /\ forecast = [n \in Nodes |-> ProphetModel]
          /\ anomaly = [n \in Nodes |-> IF n \in warm THEN [AnomalyDetector EXCEPT !.observations = WarmWindow] ELSE AnomalyDetector]
          /\ obsLog = [n \in Nodes |-> IF n \in warm THEN WarmWindow ELSE << >>]

Next ==
    \/ get_detailed_predictions
    \/ get_detailed_predictions_loop
    \/ get_detailed_predictions_return
    \/ predict_health_scores_detailed
    \/ \E node \in Nodes, df \in ServiceHistories : \E o \in TrainOutcomes(df) :
          train_model(node, df, o[1], o[2])
    \/ \E j \in 1..Len(background_tasks), df \in ServiceHistories : train_models_enter(j, df)
    \/ \E j \in 1..Len(background_tasks), df \in ServiceHistories : \E o \in TrainOutcomes(df) :
          train_models(j, FALSE, df, o[1], o[2])
    \/ \E j \in 1..Len(background_tasks) :
          train_models(j, TRUE, NoneDf, "ok", 0)

Spec == Init /\ [][Next]_vars


\* the service after both nodes have been scored min_samples - 1 times and
\* n1 has been trained on MIN_DATA_POINTS_FOR_PROPHET points with an
\* in-sample error of 0.1999
TrainedModel ==
    [model |-> "fitted", last_trained |-> 0, training_data |-> Df(Hist(MIN_DATA_POINTS_FOR_PROPHET, 10, 10)),
     data_points_count |-> MIN_DATA_POINTS_FOR_PROPHET, last_mape |-> 1999]

InitTrained ==
    /\ PROPHET_AVAILABLE = TRUE /\ SKLEARN_AVAILABLE \in BOOLEAN
    /\ InitRequests /\ InitThreads
    /\ now = 0
    /\ lastCall = NoCall
    /\ regLock = [k \in Kinds |-> 0]
    /\ tpc = [t \in Threads |-> "idle"]
    /\ tkind = [t \in Threads |-> "forecast"]
    /\ tkey = [t \in Threads |-> "n1"]
    /\ got = [kind |-> "forecast", key |-> "n1", id |-> 0]
    /\ models = [n \in Nodes |-> IF n = "n1" THEN 1 ELSE 3]
    /\ detectors = [n \in Nodes |-> IF n = "n1" THEN 2 ELSE 4]
    /\ nextId = 1 + 2 * Cardinality(Nodes)
    /\ created = { <<"forecast", n, models[n]>> : n \in Nodes } \cup { <<"anomaly", n, detectors[n]>> : n \in Nodes }
    /\ returned = created
    /\ forecast = [n \in Nodes |-> IF n = "n1" THEN TrainedModel ELSE ProphetModel]
    /\ anomaly = [n \in Nodes |-> [AnomalyDetector EXCEPT !.observations = WarmWindow]]
    /\ obsLog = [n \in Nodes |-> WarmWindow]

SpecTrained == InitTrained /\ [][Next]_vars

\* HealthScorer.calculate_health under arbitrary arguments: latencies in ms,
\* rates and scores in units of 1e-4, confidences in units of 1e-8
ScorerLatencies == {0, 10, 50, 500}
ScorerRates == {0, 2000, One}
ScorerAnomalyScores == {0, 7000}
ScorerTrends == {"improving", "stable", "degrading", "unknown"}
ScorerConfidences == { c * One : c \in {1000, 2500, 3000, 3001, 9900} }

InitScorer ==
    /\ PROPHET_AVAILABLE = TRUE /\ SKLEARN_AVAILABLE = TRUE
    /\ InitRegistries /\ InitModels /\ InitRequests /\ InitThreads

NextScorer ==
    \E current_latency \in ScorerLatencies, predicted_latency \in ScorerLatencies, error_rate \in ScorerRates :
    \E is_anom \in BOOLEAN, anomaly_score \in ScorerAnomalyScores, trend \in ScorerTrends :
    \E prediction_confidence \in ScorerConfidences :
        call_calculate_health(current_latency, predicted_latency, error_rate, is_anom, anomaly_score, trend, prediction_confidence)

SpecScorer == InitScorer /\ [][NextScorer]_vars

\* threads calling get_or_create and then the operations of the instances.
\* n1 has been scored min_samples - 1 times before, n2 never; each detector
\* receives at most FreeAdds further observations.
LockedAdds(node) == (IF node = "n1" THEN Len(WarmWindow) ELSE 0) + FreeAdds
FitHistory == Df(Hist(MIN_DATA_POINTS_FOR_PROPHET, 10, 50))

InitLocks ==
    /\ PROPHET_AVAILABLE = TRUE /\ SKLEARN_AVAILABLE = TRUE
    /\ InitRequests /\ InitThreads
    /\ now = 0
    /\ lastCall = NoCall
    /\ regLock = [k \in Kinds |-> 0]
    /\ tpc = [t \in Threads |-> "idle"]
    /\ tkind = [t \in Threads |-> "forecast"]
    /\ tkey = [t \in Threads |-> "n1"]
    /\ got = [kind |-> "forecast", key |-> "n1", id |-> 0]
    /\ models = [n \in Nodes |-> IF n = "n1" THEN 1 ELSE 0]
    /\ detectors = [n \in Nodes |-> IF n = "n1" THEN 2 ELSE 0]
    /\ nextId = 3
    /\ created = {<<"forecast", "n1", 1>>, <<"anomaly", "n1", 2>>}
    /\ returned = created
    /\ forecast = [n \in Nodes |-> ProphetModel]
    /\ anomaly = [n \in Nodes |-> IF n = "n1" THEN [AnomalyDetector EXCEPT !.observations = WarmWindow] ELSE AnomalyDetector]
    /\ obsLog = [n \in Nodes |-> IF n = "n1" THEN WarmWindow ELSE << >>]

NextLocks ==
    \E t \in Threads :
        \/ \E kind \in Kinds, node \in Nodes : get_or_create_acquire(t, kind, node)
        \/ get_or_create_check(t)
        \/ get_or_create_insert(t)
        \/ get_or_create_return(t)
        \/ \E kind \in Kinds, node \in Nodes : \E op \in ModelOps(kind) :
              /\ op = "add_observation" => Len(obsLog[node]) < LockedAdds(node)
              /\ model_acquire(t, kind, node, op)
        \/ \E fit \in FitOutcomes : model_release(t, FitHistory, fit)

SpecLocks == InitLocks /\ [][NextLocks]_vars

\* the service with cold registries and both libraries, while the clock advances
InitClock ==
    /\ Init
    /\ PROPHET_AVAILABLE /\ SKLEARN_AVAILABLE
    /\ \A n \in Nodes : models[n] = 0

NextClock ==
    \/ Next
    \/ utcnow_tick

SpecClock == InitClock /\ [][NextClock]_vars

\* the service under several scoring requests, each over a set of nodes with
\* the same metrics, and the background jobs they schedule
ScoredSets == { <<"n1">>, <<"n1", "n2">> }

\* POST /predict while the metrics source answers: _get_detailed_predictions
\* up to its for loop
predict_health_scores(ns) ==
    /\ event_loop_free
    /\ requests < MaxScored
    /\ requests' = requests + 1
    /\ get_detailed_predictions_collect(ns, [n \in NodeSet(ns) |-> 10], [n \in NodeSet(ns) |-> 0])
    /\ UNCHANGED <<libVars, thrVars, lockVars, now, lastCall>>

NextQueue ==
    \/ \E ns \in ScoredSets : predict_health_scores(ns)
    \/ get_detailed_predictions_loop
    \/ get_detailed_predictions_return
    \/ predict_health_scores_detailed
    \/ \E j \in 1..Len(background_tasks), df \in ServiceHistories : train_models_enter(j, df)
    \/ \E j \in 1..Len(background_tasks), df \in ServiceHistories : \E o \in TrainOutcomes(df) :
          train_models(j, FALSE, df, o[1], o[2])
    \/ \E j \in 1..Len(background_tasks) :
          train_models(j, TRUE, NoneDf, "ok", 0)

SpecQueue == InitClock /\ [][NextQueue]_vars


\* the service while the metrics source returns a long enough history and
\* Prophet fits: the request handler, which has no await, runs to its end
\* once started, and the event loop keeps resuming the background jobs
LiveHistories == { df \in ServiceHistories : Trainable(df) }

request_return ==
    \/ get_detailed_predictions_return
    \/ predict_health_scores_detailed

background_step ==
    \/ \E j \in 1..Len(background_tasks), df \in LiveHistories : train_models_enter(j, df)
    \/ \E j \in 1..Len(background_tasks), df \in LiveHistories, mape \in ServiceMapes :
          train_models(j, FALSE, df, "ok", mape)

InitLive ==
    /\ Init
    /\ PROPHET_AVAILABLE

NextLive ==
    \/ get_detailed_predictions
    \/ get_detailed_predictions_loop
    \/ request_return
    \/ \E node \in Nodes, df \in ServiceHistories : \E o \in TrainOutcomes(df) :
          train_model(node, df, o[1], o[2])
    \/ background_step

\* weak fairness of the loop step, its enabling condition written as loop_ready:
\* a handler that has a node left goes on to process it
loop_fair == []<>(~loop_ready) \/ []<><<get_detailed_predictions_loop>>_vars

SpecLive == InitLive /\ [][NextLive]_vars /\ loop_fair /\ WF_vars(request_return) /\ WF_vars(background_step)


\* ------------------------------------------------------------------- claims

\* C1: under any interleaving of get_or_create and get calls on a registry,
\* get_or_create returns the same instance for the same key and distinct
\* instances for different keys, every instance returned (by get_or_create,
\* or by get when not None) is the one created for its key, and an entry once
\* created is still in the registry, unreplaced.
C1_RegistryIdentity ==
    /\ \A r \in returned, q \in returned :
          (r[1] = q[1]) => ((r[2] = q[2]) <=> (r[3] = q[3]))
    /\ \A r \in returned : r \in created
    /\ \A c \in created : registry(c[1])[c[2]] = c[3]
    /\ got.id # 0 => <<got.kind, got.key, got.id>> \in created

\* two keys of one registry have been returned, a later call is about to
\* return an instance that was returned before, and a get found an entry
C1_Witness ==
    /\ \E r \in returned, q \in returned : r[1] = q[1] /\ r[2] # q[2]
    /\ \E t \in Threads : tpc[t] = "return" /\ <<tkind[t], tkey[t], registry(tkind[t])[tkey[t]]>> \in returned
    /\ got.id # 0

TrainRejected(c) == c.df.isNone \/ Len(c.df.y) < MIN_DATA_POINTS_FOR_PROPHET
FitAttempted(c) == PROPHET_AVAILABLE /\ ~TrainRejected(c)

\* C4: a train call whose history is None or shorter than
\* MIN_DATA_POINTS_FOR_PROPHET returns False and leaves every field of the
\* model, and so is_trained(), as before the call.
C4_ShortHistoryRejected ==
    (lastCall.op = "train" /\ TrainRejected(lastCall)) =>
        /\ lastCall.ret = FALSE
        /\ forecast[lastCall.node] = lastCall.pre
        /\ is_trained(forecast[lastCall.node]) = is_trained(lastCall.pre)

\* a trained model has just rejected a history one point too short
C4_Witness ==
    /\ lastCall.op = "train"
    /\ ~lastCall.df.isNone
    /\ Len(lastCall.df.y) = MIN_DATA_POINTS_FOR_PROPHET - 1
    /\ is_trained(lastCall.pre)
    /\ lastCall.ret = FALSE

\* C5: a train call whose internal fit fails returns False and leaves every
\* field of the model as before the call.
C5_FailedFitLeavesState ==
    (lastCall.op = "train" /\ FitAttempted(lastCall) /\ lastCall.fit # "ok") =>
        /\ lastCall.ret = FALSE
        /\ forecast[lastCall.node] = lastCall.pre

\* C6: is_trained() never goes from true to false.
C6_TrainedStaysTrained ==
    [][\A n \in Nodes : is_trained(forecast[n]) => is_trained(forecast'[n])]_vars

\* a trained model has just gone through a train call whose fit raised
C6_Witness ==
    /\ lastCall.op = "train"
    /\ is_trained(lastCall.pre)
    /\ FitAttempted(lastCall)
    /\ lastCall.fit = "fit_raises"
    /\ lastCall.ret = FALSE
    /\ is_trained(forecast[lastCall.node])

\* C7: predict returns (0.0, 0.0) whenever the model is untrained or the
\* prediction raises; otherwise predicted_latency >= 0 and confidence is in
\* [0.1, 0.99]; confidence 0.0 comes only with predicted_latency 0.0.
C7_PredictSentinel ==
    lastCall.op = "predict" =>
        /\ (~is_trained(lastCall.pre) \/ lastCall.ret.raised) =>
              (lastCall.ret.predicted_latency = 0 /\ lastCall.ret.confidence = 0)
        /\ (is_trained(lastCall.pre) /\ ~lastCall.ret.raised) =>
              /\ lastCall.ret.predicted_latency >= 0
              /\ lastCall.ret.confidence >= Fine \div 10
              /\ lastCall.ret.confidence <= (Fine \div 100) * 99
        /\ lastCall.ret.confidence = 0 => lastCall.ret.predicted_latency = 0

\* a trained model has returned a prediction whose confidence was raised to 0.1
C7_Witness ==
    /\ lastCall.op = "predict"
    /\ is_trained(lastCall.pre)
    /\ ~lastCall.ret.raised
    /\ lastCall.ret.predicted_latency > 0
    /\ lastCall.ret.confidence = Fine \div 10
    /\ lastCall.pre.last_mape = One

NoAnomaly == [is_anomaly |-> FALSE, anomaly_score |-> 0, raised |-> FALSE, escaped |-> FALSE]

\* C8: while fewer than min_samples observations have been added to a
\* detector, its trained flag is false and is_anomaly returns (False, 0.0)
\* whatever the opaque detector would answer.
C8_ClassifyBeforeMinSamples ==
    \A n \in Nodes :
        Len(obsLog[n]) < min_samples =>
            /\ ~anomaly[n].is_trained
            /\ \A out \in ClassifyOutcomes : is_anomaly(anomaly[n], SKLEARN_AVAILABLE, out) = NoAnomaly
            /\ (lastCall.op = "is_anomaly" /\ lastCall.node = n) => lastCall.ret = NoAnomaly

\* is_anomaly was called on a detector one observation short of min_samples
C8_Witness ==
    /\ SKLEARN_AVAILABLE
    /\ Len(obsLog["n1"]) = min_samples - 1
    /\ lastCall.op = "is_anomaly"
    /\ lastCall.out.prediction = -1
    /\ lastCall.ret = NoAnomaly

\* C9: the window holds at most window_size observations, and they are the
\* most recently added ones in insertion order.
C9_WindowIsLastAdded ==
    \A n \in Nodes :
        LET w == anomaly[n].observations
            all == obsLog[n]
        IN  /\ Len(w) <= window_size
            /\ Len(w) = Min(Len(all), window_size)
            /\ w = SubSeq(all, Len(all) - Len(w) + 1, Len(all))

\* more observations than the window holds were added and the oldest are gone
C9_Witness ==
    /\ Len(obsLog["n1"]) = window_size + 2
    /\ Len(anomaly["n1"].observations) = window_size
    /\ anomaly["n1"].observations[1] # obsLog["n1"][1]

\* C2: when is_available() is false at the start of a scoring request, the
\* response maps every requested node to health_score 0.5 and confidence 0.0
\* and the step changes nothing else: no registry entry, no observation, no
\* forecast model, no queued retraining job.
C2_UnavailableChangesNothing ==
    [][(pc = "idle" /\ pc' = "done" /\ ~prometheus_available') =>
          /\ DOMAIN results' = NodeSet(nodes')
          /\ \A n \in NodeSet(nodes') : results'[n] = [health_score |-> One \div 2, confidence |-> 0]
          /\ UNCHANGED <<models, detectors, nextId, created>>
          /\ UNCHANGED <<forecast, anomaly, obsLog>>
          /\ UNCHANGED <<background_tasks, bgLog>>]_vars

\* an unavailable request for two nodes has answered while neither node has
\* a registry entry
C2_Witness ==
    /\ pc = "done"
    /\ ~prometheus_available
    /\ NodeSet(nodes) = Nodes
    /\ \A n \in Nodes : results[n].health_score = One \div 2 /\ models[n] = 0 /\ detectors[n] = 0
    /\ background_tasks = << >>

\* C3: every per-node result of a scoring request has health_score in
\* [0.01, 1.0], confidence in [0, 0.99] and anomaly_score in [0, 1].
C3_ResultBounds ==
    \A n \in DOMAIN results :
        /\ results[n].health_score >= One \div 100
        /\ results[n].health_score <= One
        /\ results[n].confidence >= 0
        /\ results[n].confidence <= One - One \div 100
        /\ "anomaly_score" \in DOMAIN results[n] =>
              (results[n].anomaly_score >= 0 /\ results[n].anomaly_score <= One)

\* C10: a scoring request always completes with exactly one entry for every
\* requested node: no exception leaves the handler, the loop walks the finite
\* node list and every pass adds the entry of its node, and the answer has an
\* entry for exactly the requested nodes.
C10_RequestAlwaysAnswers ==
    /\ pc # "error"
    /\ pc = "loop" =>
          /\ idx \in 1..(Len(nodes) + 1)
          /\ DOMAIN results = { nodes[i] : i \in 1..(idx - 1) }
    /\ pc = "done" => DOMAIN results = NodeSet(nodes)

\* a request for two nodes has answered although the anomaly fit, the
\* classification, the forecast prediction and the trend computation all failed
C10_Witness ==
    /\ pc = "done"
    /\ prometheus_available
    /\ failed = {"fit", "classify", "predict", "trend"}
    /\ DOMAIN results = Nodes

\* C11: for one ForecastModel the critical sections of train and predict
\* never overlap: no thread is inside predict's with block while another is
\* between replacing and fitting the model, the lock is held exactly while a
\* thread is inside one of the two sections, and no predict has read a model
\* that a concurrent train had replaced but not finished fitting.
C11_TrainPredictExclusive ==
    /\ \A t \in Threads, u \in Threads :
          (t # u /\ mpc[t] \in {"fitting", "predicting"}) => mpc[u] \notin {"fitting", "predicting"}
    /\ (selfLock # 0) <=> (\E t \in Threads : mpc[t] \in {"fitting", "predicting"})
    /\ ~readMidFit

\* a trained model is being refitted, its model replaced and not yet fitted,
\* while another thread waits at the lock of predict
C11_Witness ==
    /\ forecast["n1"].last_trained # -1
    /\ forecast["n1"].model = "unfitted"
    /\ \E t \in Threads, u \in Threads : mpc[t] = "fitting" /\ mpc[u] = "predict_wait"

\* C13: a scoring request only enqueues its flagged nodes and returns. No
\* step of a request, from its arrival to its answer, changes a forecast model
\* other than creating it, none starts or advances a background job, and the
\* only change of the job queue is the return appending the flagged nodes as
\* one job that has not started.
C13_RequestOnlyEnqueues ==
    [][(pc # "idle" \/ pc' # "idle") =>
          /\ \A n \in Nodes :
                \/ forecast'[n] = forecast[n]
                \/ models[n] = 0 /\ forecast'[n] = ProphetModel
          /\ UNCHANGED <<bgLog, bgTrain>>
          /\ background_tasks' =
                IF pc = "loop" /\ pc' = "done" /\ nodes_needing_training # << >>
                THEN Append(background_tasks, [nodes |-> nodes_needing_training, i |-> 1])
                ELSE background_tasks]_vars

\* a request for two untrained nodes has returned its results; its job holds
\* both nodes and has not started, and no model is fitted
C13_Witness ==
    /\ pc = "done"
    /\ DOMAIN results = Nodes
    /\ nodes_needing_training = <<"n1", "n2">>
    /\ background_tasks = << [nodes |-> <<"n1", "n2">>, i |-> 1] >>
    /\ bgTrain.j = 0
    /\ \A n \in Nodes : forecast[n].model = None

\* C14: the background job attempts every node of its list in order. Every
\* pass, whether the fetch raised, the training failed or it succeeded, is
\* about the node at the job's position and moves the job to its next node
\* (or ends it after the last one); train is called exactly when the fetch
\* returned a history of at least MIN_DATA_POINTS_FOR_PROPHET points, and a
\* pass that does not call it changes no forecast model.
C14_JobAttemptsEveryNode ==
    [][(pc = "idle" /\ pc' = "idle" /\ background_tasks' # background_tasks) =>
          \E j \in 1..Len(background_tasks) :
              LET job == background_tasks[j]
              IN  /\ job.i \in 1..Len(job.nodes)
                  /\ bgLog'.nodes = job.nodes /\ bgLog'.i = job.i /\ bgLog'.node = job.nodes[job.i]
                  /\ IF job.i < Len(job.nodes)
                     THEN background_tasks' = [background_tasks EXCEPT ![j] = [nodes |-> job.nodes, i |-> job.i + 1]]
                     ELSE /\ Len(background_tasks') = Len(background_tasks) - 1
                          /\ \A k \in 1..Len(background_tasks') :
                                background_tasks'[k] = background_tasks[IF k < j THEN k ELSE k + 1]
                  /\ bgLog'.called <=> (~bgLog'.raises /\ bgLog'.points >= MIN_DATA_POINTS_FOR_PROPHET)
                  /\ bgLog'.trained => bgLog'.called
                  /\ ~bgLog'.called => forecast' = forecast]_vars

\* the pass for the first of two nodes called train and the training failed;
\* the job is at its second node
C14_Witness ==
    /\ bgLog.nodes = <<"n1", "n2">>
    /\ bgLog.i = 1
    /\ bgLog.called /\ ~bgLog.trained
    /\ background_tasks = << [nodes |-> <<"n1", "n2">>, i |-> 2] >>

\* C15: the node of a pass is scored with the full formula exactly when its
\* forecast model is trained and predict returned a confidence above 0.2: the
\* entry then is the one calculate_health gives for the predicted latency and
\* that confidence. In every other case (untrained, the sentinel (0.0, 0.0),
\* a confidence of at most 0.2) the entry reports trend unknown,
\* predicted_latency equal to current_latency and confidence 0.0.
C15_FullScoringExactlyWhenConfident ==
    (pc \in {"loop", "done"} /\ loopLog.node # None) =>
        LET n == loopLog.node
            r == results[n]
        IN  IF loopLog.trained /\ loopLog.confidence > 2000 * One
            THEN /\ r.confidence = Round4(loopLog.confidence)
                 /\ r.predicted_latency = loopLog.predicted_latency
                 /\ r = calculate_health(current_latencies[n], loopLog.predicted_latency, current_errors[n], r.is_anomaly, r.anomaly_score, r.trend, loopLog.confidence)
            ELSE /\ r.trend = "unknown"
                 /\ r.current_latency = current_latencies[n]
                 /\ r.predicted_latency = r.current_latency
                 /\ r.confidence = 0

\* both cases have happened in one request: a trained node whose predict
\* returned confidence 0.25 was scored with the full formula, after an
\* entry of the fallback
C15_Witness ==
    /\ pc = "done"
    /\ loopLog.trained
    /\ loopLog.confidence = 2500 * One
    /\ results[loopLog.node].confidence = 2500
    /\ \E n \in DOMAIN results : results[n].confidence = 0

\* C16: on the fallback path the health_score is latency_to_score of the
\* current latency (1.0 for a latency <= 0, exp(-k * latency) otherwise),
\* multiplied by (1 - error_rate) exactly when error_rate > 0.1.
C16_FallbackScore ==
    (pc \in {"loop", "done"} /\ loopLog.node # None /\ ~(loopLog.trained /\ loopLog.confidence > 2000 * One)) =>
        LET n == loopLog.node
            score == _latency_to_score(current_latencies[n])
        IN  results[n].health_score =
                Round4(IF current_errors[n] > 1000 THEN Scale(score, One - current_errors[n]) ELSE score)

\* C17: when the latency and error-rate queries of a scoring request error
\* after a successful availability check, every node gets the neutral default
\* (health_score 0.5, confidence 0.0), no observation is added to an anomaly
\* model and no model is created or changed.
C17_QueryErrorDegrades ==
    [][(query_failed /\ pc = "loop") =>
          /\ UNCHANGED <<obsLog, anomaly, forecast, models, detectors>>
          /\ \A n \in DOMAIN results' :
                results'[n].health_score = default_result.health_score /\ results'[n].confidence = default_result.confidence]_vars

\* C18: a refit that fails inside add_observation leaves the detector's
\* trained flag and fitted model as they were before the call: a trained
\* detector stays trained with its previous fit.
C18_FailedRefitKeepsDetector ==
    (lastCall.op = "add_observation" /\ lastCall.fit # "ok") =>
        /\ anomaly[lastCall.node].is_trained = lastCall.was_trained
        /\ (lastCall.was_trained => anomaly[lastCall.node].model = lastCall.was_model)

\* C19: POST /train answers insufficient_data, with the point count and the
\* required minimum, and changes no model when the history is missing or
\* shorter than MIN_DATA_POINTS_FOR_PROPHET; it answers trained, with the
\* point count and the error metric, exactly when train returned true, and
\* failed in every other case.
C19_ManualTrainingStatus ==
    [][trainCalls' # trainCalls =>
          LET c == lastCall'
              short == c.df.isNone \/ Len(c.df.y) < MIN_DATA_POINTS_FOR_PROPHET
          IN  /\ c.op = "train_model"
              /\ short =>
                    /\ c.response = [status |-> "insufficient_data",
                                     data_points |-> IF c.df.isNone THEN 0 ELSE Len(c.df.y),
                                     required |-> MIN_DATA_POINTS_FOR_PROPHET]
                    /\ UNCHANGED <<regVars, modelVars>>
              /\ (~short /\ c.ret) =>
                    c.response = [status |-> "trained", data_points |-> Len(c.df.y), mape |-> forecast'[c.node].last_mape]
              /\ (~short /\ ~c.ret) => c.response = [status |-> "failed"]]_vars

C19_Witness ==
    /\ lastCall.op = "train_model"
    /\ lastCall.response.status = "trained"
    /\ lastCall.response.data_points = MIN_DATA_POINTS_FOR_PROPHET
    /\ lastCall.response.mape = forecast[lastCall.node].last_mape

\* C20: a scoring request appends a node to nodes_needing_training exactly
\* when the node's forecast model is untrained and its needs_retrain check is
\* true; a node whose model is trained is never appended, whatever the age of
\* its last training.
C20_FlaggedExactlyWhenUntrainedAndDue ==
    [][(pc = "loop" /\ pc' = "loop" /\ idx' = idx + 1) =>
          LET flagged == nodes_needing_training' # nodes_needing_training
          IN  /\ flagged <=> (~loopLog'.trained /\ loopLog'.due)
              /\ flagged => nodes_needing_training' = Append(nodes_needing_training, loopLog'.node)
              /\ loopLog'.trained => ~flagged]_vars

C20_Witness ==
    /\ pc \in {"loop", "done"}
    /\ loopLog.node # None
    /\ loopLog.trained /\ loopLog.due
    /\ nodes_needing_training = << >>

\* C21: while the metrics source returns at least MIN_DATA_POINTS_FOR_PROPHET
\* points of history and fitting succeeds, a node whose forecast model is
\* untrained when a scoring request processes it eventually has is_trained()
\* true, under fair scheduling of the handler and of the background job.
C21_UntrainedEventuallyTrained ==
    \A n \in Nodes :
        (pc = "loop" /\ idx <= Len(nodes) /\ nodes[idx] = n /\ ~is_trained(forecast[n]))
            ~> is_trained(forecast[n])

C21_Witness ==
    /\ bgLog.node # None
    /\ bgLog.trained
    /\ is_trained(forecast[bgLog.node])
    /\ requests > 0 /\ pc = "idle" /\ background_tasks = << >>

\* C22: a registry lock is released before a model operation starts and no
\* model operation takes a second lock: a thread never holds a registry lock
\* together with a model lock, or two model locks; every lock is held by a
\* thread that is inside the block that releases it, so no thread waits while
\* holding a lock, and a lock of one node's model is free or taken whatever
\* the locks of the other node's models.
locks_held(t) ==
    { <<"registry", k, "">> : k \in { k \in Kinds : regLock[k] = t } }
    \cup { <<"model", kn[1], kn[2]>> : kn \in { kn \in Kinds \X Nodes : modelLock[kn[1]][kn[2]] = t } }

C22_OneLockPerThread ==
    \A t \in Threads :
        /\ Cardinality(locks_held(t)) <= 1
        /\ (\E k \in Kinds : regLock[k] = t) => tpc[t] \in {"check", "insert", "return"}
        /\ (\E k \in Kinds, n \in Nodes : modelLock[k][n] = t) => tpc[t] = "in_model"
        /\ tpc[t] = "idle" => locks_held(t) = {}

C22_Witness ==
    /\ modelLock["forecast"]["n1"] = 1
    /\ modelLock["forecast"]["n2"] = 2
    /\ top[1] = "train" /\ top[2] = "train"

\* C23: within one scoring request the nodes are processed one at a time in
\* request order; each pass adds the node's current observation to its
\* anomaly model exactly once, to no other model, and classifies the node
\* afterwards, on the window that already holds that observation.
C23_ObservedThenClassified ==
    [][(pc = "loop" /\ pc' = "loop" /\ idx' # idx) =>
          LET node == nodes[idx]
              observation == [latency |-> current_latencies[node], error_rate |-> current_errors[node]]
          IN  /\ idx' = idx + 1
              /\ loopLog'.node = node
              /\ obsLog'[node] = Append(IF detectors[node] = 0 THEN << >> ELSE obsLog[node], observation)
              /\ \A n \in Nodes \ {node} : obsLog'[n] = obsLog[n] /\ anomaly'[n] = anomaly[n]
              /\ loopLog'.classified = anomaly'[node]
              /\ loopLog'.classified.observations # << >>
              /\ loopLog'.classified.observations[Len(loopLog'.classified.observations)] = observation]_vars

C23_Witness ==
    /\ pc = "loop"
    /\ nodes = <<"n1", "n2">>
    /\ idx = 3
    /\ loopLog.node = "n2"
    /\ loopLog.classified.is_trained
    /\ Len(obsLog["n1"]) = min_samples /\ Len(obsLog["n2"]) = min_samples

\* C24: on the full path health_score = clamp(0.01, 1.0, raw), where raw is
\* the weighted sum of the current-latency score, the error score, the trend
\* score and the stability score, multiplied by 0.5 if is_anomaly, by 0.9 if
\* the trend is degrading and by 1.05 if it is improving; the trend score
\* blends the current and the predicted latency score by the confidence only
\* when confidence > 0.3 and is the current-latency score otherwise.
C24_FullFormula ==
    lastCall.op = "calculate_health" =>
        LET a == lastCall
            current_score == _latency_to_score(a.current_latency)
            predicted_score == _latency_to_score(a.predicted_latency)
            trend_score ==
                IF a.prediction_confidence > 3000 * One
                THEN MulFine(current_score, Fine - a.prediction_confidence) + MulFine(predicted_score, a.prediction_confidence)
                ELSE current_score
            weighted ==
                Scale(current_score, WEIGHTS.current_latency)
                + WEIGHTS.error_rate * Max(0, One - a.error_rate)
                + Scale(trend_score, WEIGHTS.predicted_trend)
                + WEIGHTS.anomaly_score * Max(0, One - a.anomaly_score)
            halved == IF a.is_anomaly THEN weighted \div 2 ELSE weighted
            raw == CASE a.trend = "degrading" -> (halved \div 10) * 9
                     [] a.trend = "improving" -> halved + halved \div 20
                     [] OTHER -> halved
        IN  /\ a.ret.health_score = Round4(Max(Fine \div 100, Min(Fine, raw)))
            /\ a.ret.health_score >= One \div 100 /\ a.ret.health_score <= One
            /\ a.prediction_confidence <= 3000 * One =>
                  a.ret.health_score = calculate_health(a.current_latency, a.current_latency, a.error_rate, a.is_anomaly,
                                                        a.anomaly_score, a.trend, a.prediction_confidence).health_score

C24_Witness ==
    /\ lastCall.op = "calculate_health"
    /\ lastCall.prediction_confidence = 3000 * One
    /\ lastCall.current_latency = 0 /\ lastCall.predicted_latency = 500
    /\ lastCall.trend = "improving" /\ ~lastCall.is_anomaly
    /\ lastCall.error_rate = 0 /\ lastCall.anomaly_score = 0
    /\ lastCall.ret.health_score = One

\* C25: get_trend returns unknown whenever the forecast model is untrained;
\* for a trained model whose means are computed it returns improving when
\* the mean of the 10 most recent retained observations divided by the mean
\* of all retained observations is below 0.9, degrading when that ratio is
\* above 1.1, and stable otherwise.
C25_Trend ==
    lastCall.op = "get_trend" =>
        LET self == lastCall.pre
            y == self.training_data.y
            n == Len(y)
            recent_sum == Sum(y, n - 9, n)
            overall_sum == Sum(y, 1, n)
        IN  /\ ~is_trained(self) => lastCall.ret = "unknown"
            /\ (is_trained(self) /\ ~lastCall.raises /\ overall_sum > 0) =>
                  /\ n >= 10
                  /\ lastCall.ret = (IF recent_sum * n * 10 < overall_sum * 10 * 9 THEN "improving"
                                     ELSE IF recent_sum * n * 10 > overall_sum * 10 * 11 THEN "degrading"
                                     ELSE "stable")
            /\ (is_trained(self) /\ ~lastCall.raises /\ overall_sum <= 0) => lastCall.ret = "stable"

C25_Witness ==
    /\ lastCall.op = "get_trend"
    /\ is_trained(lastCall.pre)
    /\ lastCall.pre.training_data.y[1] = 50
    /\ lastCall.ret = "improving"

\* C26: a node is never handed to background retraining while an earlier
\* retraining of the same node is still queued or running: at most one train
\* of a node's forecast model is pending at any time.
pending(node) ==
    UNION { { <<j, k>> : k \in { k \in background_tasks[j].i..Len(background_tasks[j].nodes) : background_tasks[j].nodes[k] = node } } :
            j \in 1..Len(background_tasks) }

C26_OneTrainPending == \A n \in Nodes : Cardinality(pending(n)) <= 1

\* C27: the confidence reported in a per-node scoring result is either
\* exactly 0.0 or strictly greater than 0.2, and every result whose trend is
\* not unknown has a confidence greater than 0.2.
C27_ConfidenceZeroOrAbove ==
    \A n \in DOMAIN results :
        /\ results[n].confidence = 0 \/ results[n].confidence > 2000
        /\ ("trend" \in DOMAIN results[n] /\ results[n].trend # "unknown") => results[n].confidence > 2000

\* C12: background retraining does not block request handling: while a
\* background job is inside train, the event loop is free for a scoring
\* request to start and run.
C12_BackgroundDoesNotBlock ==
    bgTrain.j # 0 => event_loop_free

====
